---- MODULE Spec2Model ----
(***************************************************************************)
(* Task CRUD API of sandbox-go (cmd/api/main.go) over the tasks/users      *)
(* tables of init.sql.                                                     *)
(*                                                                         *)
(* The datastore is the pair of tables plus the sequence behind tasks.id.  *)
(* Every SQL statement is one atomic step; a handler is the sequence of    *)
(* its statements, so two requests interleave between statements.  Any     *)
(* statement may fail (connection loss, cancelled context): it then has    *)
(* no effect and the handler sees a non-nil error.                         *)
(*                                                                         *)
(* Strings are sequences of one-character strings.  Messages built with    *)
(* fmt.Sprintf("%d") are put together with ToString.                       *)
(***************************************************************************)
EXTENDS Integers, Sequences, FiniteSets, TLC

\* ---------------------------------------------------------------- bounds

\* Largest value tasks_id_seq may reach: creates stop being issued beyond it.
MaxSeq == 7

\* ------------------------------------------------------- program constants

\* title VARCHAR(255)
TitleLimit == 255

StatusOK == 200
StatusCreated == 201
StatusNoContent == 204
StatusBadRequest == 400
StatusNotFound == 404
StatusMethodNotAllowed == 405
StatusInternalServerError == 500

\* ------------------------------------------------------------- strings

Digits == {"0", "1", "2", "3", "4", "5", "6", "7", "8", "9"}

DigitVal(c) ==
    CASE c = "0" -> 0 [] c = "1" -> 1 [] c = "2" -> 2 [] c = "3" -> 3
      [] c = "4" -> 4 [] c = "5" -> 5 [] c = "6" -> 6 [] c = "7" -> 7
      [] c = "8" -> 8 [] c = "9" -> 9

\* the n-fold repetition of character c
Rep(c, n) == [i \in 1..n |-> c]

\* strings.TrimSuffix(s, "/"): drops one trailing "/" if there is one
TrimSuffixSlash(s) ==
    IF Len(s) > 0 /\ s[Len(s)] = "/" THEN SubSeq(s, 1, Len(s) - 1) ELSE s

RECURSIVE DecimalValue(_)
DecimalValue(ds) ==
    IF Len(ds) = 0 THEN 0
    ELSE 10 * DecimalValue(SubSeq(ds, 1, Len(ds) - 1)) + DigitVal(ds[Len(ds)])

\* strconv.Atoi: an optional sign, then one or more decimal digits.
\* (Range errors need 19 digits and more; the segments here are shorter.)
Atoi(s) ==
    LET signed == Len(s) > 0 /\ s[1] \in {"+", "-"}
        ds == IF signed THEN Tail(s) ELSE s
    IN  IF Len(ds) = 0 \/ \E i \in 1..Len(ds) : ds[i] \notin Digits
        THEN [err |-> TRUE, val |-> 0]
        ELSE [err |-> FALSE,
              val |-> IF signed /\ s[1] = "-" THEN 0 - DecimalValue(ds)
                      ELSE DecimalValue(ds)]

\* extractID that forgets the trailing slash
extractID_NoTrim(seg) == Atoi(seg)

\* extractID(path, "/tasks/") where path = "/tasks/" \o seg
extractID(seg) == Atoi(TrimSuffixSlash(seg))

\* ----------------------------------------------------------- JSON bodies

\* A JSON value: t is its type, v its content (0 where it has none).
JAbsent == [t |-> "absent", v |-> 0]
JNull == [t |-> "null", v |-> 0]
JNum(n) == [t |-> "num", v |-> n]
JStr(s) == [t |-> "str", v |-> s]
JBool(b) == [t |-> "bool", v |-> b]

\* A request body: text that is no JSON ("bad"), the JSON value null, or an
\* object; of an object only the keys the request structs name matter.
BadBody == [syntax |-> "bad", user_id |-> JAbsent, title |-> JAbsent, done |-> JAbsent]
NullBody == [syntax |-> "null", user_id |-> JAbsent, title |-> JAbsent, done |-> JAbsent]
ObjBody(u, t, d) == [syntax |-> "object", user_id |-> u, title |-> t, done |-> d]

\* pointers of UpdateTaskRequest
Nil == [nil |-> TRUE, val |-> 0]
Ptr(x) == [nil |-> FALSE, val |-> x]

\* json.NewDecoder(r.Body).Decode(&req) for CreateTaskRequest: a key that is
\* absent or null leaves the zero value, a value of another type is an error.
DecodeCreate(body) ==
    IF body.syntax = "bad"
       \/ body.user_id.t \notin {"absent", "null", "num"}
       \/ body.title.t \notin {"absent", "null", "str"}
    THEN [err |-> TRUE, UserID |-> 0, Title |-> <<>>]
    ELSE [err |-> FALSE,
          UserID |-> IF body.user_id.t = "num" THEN body.user_id.v ELSE 0,
          Title |-> IF body.title.t = "str" THEN body.title.v ELSE <<>>]

\* the same for UpdateTaskRequest: a present value gives a non-nil pointer
DecodeUpdate(body) ==
    IF body.syntax = "bad"
       \/ body.title.t \notin {"absent", "null", "str"}
       \/ body.done.t \notin {"absent", "null", "bool"}
    THEN [err |-> TRUE, Title |-> Nil, Done |-> Nil]
    ELSE [err |-> FALSE,
          Title |-> IF body.title.t = "str" THEN Ptr(body.title.v) ELSE Nil,
          Done |-> IF body.done.t = "bool" THEN Ptr(body.done.v) ELSE Nil]

\* ------------------------------------------------------------ responses

\* the zero value of Task
ZeroTask == [id |-> 0, user_id |-> 0, title |-> <<>>, done |-> FALSE]

\* What writeJSON sends: the status and the encoded data.
ErrorResponse(status, msg) ==
    [status |-> status, kind |-> "error", error |-> msg, task |-> ZeroTask, tasks |-> <<>>]
TaskResponse(status, t) ==
    [status |-> status, kind |-> "task", error |-> "", task |-> t, tasks |-> <<>>]
\* a list response that is null when there are no tasks
ListResponse_NullWhenEmpty(status, ts) ==
    [status |-> status, kind |-> IF ts = <<>> THEN "null" ELSE "tasks",
     error |-> "", task |-> ZeroTask, tasks |-> ts]

\* a JSON array of tasks; the empty slice []Task{} is the array []
ListResponse(status, ts) ==
    [status |-> status, kind |-> "tasks", error |-> "", task |-> ZeroTask, tasks |-> ts]
HealthResponse ==
    [status |-> StatusOK, kind |-> "health", error |-> "", task |-> ZeroTask, tasks |-> <<>>]
\* w.WriteHeader(status) with no body
EmptyResponse(status) ==
    [status |-> status, kind |-> "none", error |-> "", task |-> ZeroTask, tasks |-> <<>>]

\* fmt.Sprintf("task %d not found", id)
NotFoundMsg(id) == "task " \o ToString(id) \o " not found"

\* ------------------------------------------------------------ datastore

VARIABLES
    users,          \* ids of the rows of table users
    tasks,          \* table tasks: id -> row, for the ids that have a row
    tasks_id_seq    \* last value handed out by the sequence behind tasks.id

SeedUsers == {1, 2, 3}

SeedTasks ==
    <<[id |-> 1, user_id |-> 1, done |-> TRUE,
       title |-> <<"L","e","a","r","n"," ","G","o"," ","b","a","s","i","c","s">>],
      [id |-> 2, user_id |-> 1, done |-> FALSE,
       title |-> <<"B","u","i","l","d"," ","R","E","S","T"," ","A","P","I">>],
      [id |-> 3, user_id |-> 2, done |-> FALSE,
       title |-> <<"S","t","u","d","y"," ","g","o","r","o","u","t","i","n","e","s">>],
      [id |-> 4, user_id |-> 2, done |-> FALSE,
       title |-> <<"P","r","a","c","t","i","c","e"," ","l","i","v","e"," ",
                   "c","o","d","i","n","g">>],
      [id |-> 5, user_id |-> 3, done |-> FALSE,
       title |-> <<"R","e","a","d"," ","a","b","o","u","t"," ","A","W","S"," ",
                   "G","l","u","e">>]>>

\* Storing s in a VARCHAR(TitleLimit) column: a longer string is an error
\* unless all the excess characters are spaces, and then it is cut.
VarcharFits(s) ==
    \A i \in (TitleLimit + 1)..Len(s) : s[i] = " "
VarcharStore(s) ==
    IF Len(s) > TitleLimit THEN SubSeq(s, 1, TitleLimit) ELSE s

\* SELECT id, user_id, title, done FROM tasks WHERE id = $1
SelectTask(id) ==
    IF id \in DOMAIN tasks THEN [err |-> FALSE, task |-> tasks[id]]
    ELSE [err |-> TRUE, task |-> ZeroTask]

RECURSIVE SortedIds(_)
SortedIds(S) ==
    IF S = {} THEN <<>>
    ELSE LET m == CHOOSE x \in S : \A y \in S : x <= y
         IN  <<m>> \o SortedIds(S \ {m})

\* SELECT id, user_id, title, done FROM tasks ORDER BY id
SelectAllTasks ==
    LET ids == SortedIds(DOMAIN tasks)
    IN  [i \in 1..Len(ids) |-> tasks[ids[i]]]

\* an insert that hands back the title it was given, not the title stored
InsertTask_ReturnsInput(user_id, title) ==
    LET newid == tasks_id_seq + 1
        row == [id |-> newid, user_id |-> user_id,
                title |-> VarcharStore(title), done |-> FALSE]
    IN  IF VarcharFits(title) /\ user_id \in users
        THEN [err |-> FALSE, task |-> [row EXCEPT !.title = title], seq |-> newid,
              table |-> [i \in DOMAIN tasks \cup {newid} |->
                            IF i = newid THEN row ELSE tasks[i]]]
        ELSE [err |-> TRUE, task |-> ZeroTask, seq |-> newid, table |-> tasks]

\* an insert that numbers the new row one past the largest id in the table
InsertTask_MaxIdPlusOne(user_id, title) ==
    LET newid == IF DOMAIN tasks = {} THEN 1
                 ELSE (CHOOSE x \in DOMAIN tasks : \A y \in DOMAIN tasks : y <= x) + 1
        row == [id |-> newid, user_id |-> user_id,
                title |-> VarcharStore(title), done |-> FALSE]
    IN  IF VarcharFits(title) /\ user_id \in users
        THEN [err |-> FALSE, task |-> row, seq |-> tasks_id_seq + 1,
              table |-> [i \in DOMAIN tasks \cup {newid} |->
                            IF i = newid THEN row ELSE tasks[i]]]
        ELSE [err |-> TRUE, task |-> ZeroTask, seq |-> tasks_id_seq + 1, table |-> tasks]

\* an insert into a table whose user_id refers to nothing
InsertTask_NoForeignKey(user_id, title) ==
    LET newid == tasks_id_seq + 1
        row == [id |-> newid, user_id |-> user_id,
                title |-> VarcharStore(title), done |-> FALSE]
    IN  IF VarcharFits(title)
        THEN [err |-> FALSE, task |-> row, seq |-> newid,
              table |-> [i \in DOMAIN tasks \cup {newid} |->
                            IF i = newid THEN row ELSE tasks[i]]]
        ELSE [err |-> TRUE, task |-> ZeroTask, seq |-> newid, table |-> tasks]

\* INSERT INTO tasks (user_id, title) VALUES ($1, $2) RETURNING ...
\* The id comes from the sequence, which moves on even when the row is then
\* refused (title too long, no such user); done takes its default.
InsertTask(user_id, title) ==
    LET newid == tasks_id_seq + 1
        row == [id |-> newid, user_id |-> user_id,
                title |-> VarcharStore(title), done |-> FALSE]
    IN  IF VarcharFits(title) /\ user_id \in users
        THEN [err |-> FALSE, task |-> row, seq |-> newid,
              table |-> [i \in DOMAIN tasks \cup {newid} |->
                            IF i = newid THEN row ELSE tasks[i]]]
        ELSE [err |-> TRUE, task |-> ZeroTask, seq |-> newid, table |-> tasks]

\* the update of title as an upsert: a row that is missing is made
UpdateTitleStmt_Upsert(title, id) ==
    IF ~VarcharFits(title) THEN [err |-> TRUE, table |-> tasks]
    ELSE [err |-> FALSE,
          table |-> [i \in DOMAIN tasks \cup {id} |->
                        IF i = id
                        THEN [id |-> id,
                              user_id |-> IF id \in DOMAIN tasks THEN tasks[id].user_id ELSE 0,
                              title |-> VarcharStore(title),
                              done |-> IF id \in DOMAIN tasks THEN tasks[id].done ELSE FALSE]
                        ELSE tasks[i]]]

\* UPDATE tasks SET title = $1 WHERE id = $2
UpdateTitleStmt(title, id) ==
    IF id \notin DOMAIN tasks THEN [err |-> FALSE, table |-> tasks]
    ELSE IF ~VarcharFits(title) THEN [err |-> TRUE, table |-> tasks]
    ELSE [err |-> FALSE,
          table |-> [tasks EXCEPT ![id].title = VarcharStore(title)]]

\* the update of done without its WHERE clause: every row is written
UpdateDoneStmt_AllRows(done, id) ==
    [err |-> FALSE, table |-> [i \in DOMAIN tasks |-> [tasks[i] EXCEPT !.done = done]]]

\* UPDATE tasks SET done = $1 WHERE id = $2
UpdateDoneStmt(done, id) ==
    IF id \notin DOMAIN tasks THEN [err |-> FALSE, table |-> tasks]
    ELSE [err |-> FALSE, table |-> [tasks EXCEPT ![id].done = done]]

\* a delete that reports the row but leaves it (a soft delete)
DeleteStmt_KeepsRow(id) ==
    [rows |-> IF id \in DOMAIN tasks THEN 1 ELSE 0, table |-> tasks]

\* the delete without its WHERE clause: every row goes
DeleteStmt_AllRows(id) ==
    [rows |-> Cardinality(DOMAIN tasks), table |-> [i \in {} |-> ZeroTask]]

\* DELETE FROM tasks WHERE id = $1
DeleteStmt(id) ==
    [rows |-> IF id \in DOMAIN tasks THEN 1 ELSE 0,
     table |-> [i \in DOMAIN tasks \ {id} |-> tasks[i]]]

\* ------------------------------------------------------------- requests

\* the requests being served at the same time
Req == {1, 2}

VARIABLES
    pc,         \* where each request is in its handler
    request,    \* the request: method, path, id segment, body
    id,         \* handler local: the parsed id
    creq,       \* handler local: the decoded CreateTaskRequest
    ureq,       \* handler local: the decoded UpdateTaskRequest
    err,        \* handler local: err != nil
    stmts,      \* the datastore calls the request has issued, in order
    response,   \* the responses the handler has written, in order
    seen,       \* what was known of the id when its lookup ran
    created,    \* ids returned by the successful creates, in order
    deleted,    \* ids whose delete was answered 204
    fresh       \* the record the last create returned, until the next statement

\* workerPool(): its channels, its WaitGroup and its goroutines
VARIABLES
    jobs,           \* buffer of channel jobs
    jobsClosed,     \* close(jobs) has run
    results,        \* buffer of channel results
    resultsClosed,  \* close(results) has run
    wg,             \* counter of the WaitGroup
    pmain,          \* where workerPool itself is
    nextWorker,     \* w of the loop that starts the workers
    nextJob,        \* j of the loop that sends the jobs
    worker,         \* each worker goroutine: where it is and the job it holds
    closer,         \* where the goroutine that closes results is
    collected       \* what the range over results has received, in order

poolvars == <<jobs, jobsClosed, results, resultsClosed, wg, pmain, nextWorker,
              nextJob, worker, closer, collected>>

\* mutexExample(): the counter, the Mutex, the WaitGroup and the goroutines
VARIABLES
    counter,        \* the shared counter
    mu,             \* the goroutine holding the Mutex, 0 for none
    mwg,            \* counter of the WaitGroup
    mmain,          \* where mutexExample itself is
    started,        \* i of the loop that starts the goroutines
    gor,            \* each goroutine: where it is and the value it loaded
    printed         \* the value of counter read after wg.Wait()

mutexvars == <<counter, mu, mwg, mmain, started, gor, printed>>

\* createUserWithTask(): table users beyond its ids, and the transaction
VARIABLES
    emails,         \* column email of table users: id -> email
    users_id_seq,   \* last value handed out by the sequence behind users.id
    tx,             \* the open transaction: the rows it wrote, not yet committed
    tpc,            \* where createUserWithTask is
    targs,          \* its arguments name, email, taskTitle
    userID,         \* its local userID
    ret,            \* what it returned
    before          \* the tables as they were when it was called

txvars == <<emails, users_id_seq, tx, tpc, targs, userID, ret, before>>

\* the task API's own variables
apivars == <<pc, request, id, creq, ureq, err, stmts, response, seen, created,
             deleted, fresh>>

\* what the handlers of the task API never touch
othervars == <<poolvars, mutexvars, txvars>>

vars == <<users, tasks, tasks_id_seq, pc, request, id, creq, ureq, err,
          stmts, response, seen, created, deleted, fresh,
          poolvars, mutexvars, txvars>>

dbvars == <<users, tasks, tasks_id_seq>>

\* ---------------------------------------------------------- workerPool

\* const numWorkers = 3
numWorkers == 3

\* const numJobs; the runs take fewer jobs than the program's 8, and more
\* jobs than workers
numJobs == 4

Workers == 1..numWorkers

\* fmt.Sprintf("worker %d processed job %d", id, job)
Sprintf(w, j) == "worker " \o ToString(w) \o " processed job " \o ToString(j)

Idle == [pc |-> "unstarted", job |-> 0]

\* workerPool() up to its first loop: both channels made with room for
\* numJobs values, nothing started
PoolInit ==
    /\ jobs = <<>>
    /\ jobsClosed = FALSE
    /\ results = <<>>
    /\ resultsClosed = FALSE
    /\ wg = 0
    /\ pmain = "start"
    /\ nextWorker = 1
    /\ nextJob = 1
    /\ worker = [w \in Workers |-> Idle]
    /\ closer = "unstarted"
    /\ collected = <<>>

PoolFrame == UNCHANGED <<dbvars, apivars, mutexvars, txvars>>

\* for w := 1; w <= numWorkers; w++ { wg.Add(1); go func(id int) {...}(w) }
StartWorker ==
    /\ pmain = "start"
    /\ IF nextWorker <= numWorkers
       THEN /\ wg' = wg + 1
            /\ worker' = [worker EXCEPT ![nextWorker].pc = "range"]
            /\ nextWorker' = nextWorker + 1
            /\ UNCHANGED pmain
       ELSE /\ pmain' = "send"
            /\ UNCHANGED <<wg, worker, nextWorker>>
    /\ UNCHANGED <<jobs, jobsClosed, results, resultsClosed, nextJob, closer, collected>>
    /\ PoolFrame

\* for j := 1; j <= numJobs; j++ { jobs <- j }: a send waits while the
\* buffer is full
SendJob ==
    /\ pmain = "send"
    /\ IF nextJob <= numJobs
       THEN /\ Len(jobs) < numJobs
            /\ jobs' = Append(jobs, nextJob)
            /\ nextJob' = nextJob + 1
            /\ UNCHANGED pmain
       ELSE /\ pmain' = "close"
            /\ UNCHANGED <<jobs, nextJob>>
    /\ UNCHANGED <<jobsClosed, results, resultsClosed, wg, nextWorker, worker,
                   closer, collected>>
    /\ PoolFrame

\* close(jobs)
CloseJobs ==
    /\ pmain = "close"
    /\ jobsClosed' = TRUE
    /\ pmain' = "go"
    /\ UNCHANGED <<jobs, results, resultsClosed, wg, nextWorker, nextJob, worker,
                   closer, collected>>
    /\ PoolFrame

\* go func() { wg.Wait(); close(results) }()
StartCloser ==
    /\ pmain = "go"
    /\ closer' = "wait"
    /\ pmain' = "collect"
    /\ UNCHANGED <<jobs, jobsClosed, results, resultsClosed, wg, nextWorker,
                   nextJob, worker, collected>>
    /\ PoolFrame

\* a worker's for job := range jobs: the next job, or the end of the loop
\* once jobs is closed and empty, and then the deferred wg.Done()
WorkerRange(w) ==
    /\ worker[w].pc = "range"
    /\ \/ /\ jobs # <<>>
          /\ worker' = [worker EXCEPT ![w] = [pc |-> "work", job |-> Head(jobs)]]
          /\ jobs' = Tail(jobs)
          /\ UNCHANGED wg
       \/ /\ jobs = <<>>
          /\ jobsClosed
          /\ worker' = [worker EXCEPT ![w] = [pc |-> "returned", job |-> 0]]
          /\ wg' = wg - 1
          /\ UNCHANGED jobs
    /\ UNCHANGED <<jobsClosed, results, resultsClosed, pmain, nextWorker, nextJob,
                   closer, collected>>
    /\ PoolFrame

\* a worker after its sleep: results <- fmt.Sprintf(...); sending on a closed
\* channel panics
WorkerSend(w) ==
    /\ worker[w].pc = "work"
    /\ IF resultsClosed
       THEN /\ worker' = [worker EXCEPT ![w].pc = "panic"]
            /\ UNCHANGED results
       ELSE /\ Len(results) < numJobs
            /\ results' = Append(results, Sprintf(w, worker[w].job))
            /\ worker' = [worker EXCEPT ![w] = [pc |-> "range", job |-> 0]]
    /\ UNCHANGED <<jobs, jobsClosed, resultsClosed, wg, pmain, nextWorker, nextJob,
                   closer, collected>>
    /\ PoolFrame

\* the closing goroutine without its wg.Wait()
CloserWait_NoWait ==
    /\ closer = "wait"
    /\ closer' = "close"
    /\ UNCHANGED <<jobs, jobsClosed, results, resultsClosed, wg, pmain, nextWorker,
                   nextJob, worker, collected>>
    /\ PoolFrame

\* the closing goroutine: wg.Wait() returns when the counter is zero
CloserWait ==
    /\ closer = "wait"
    /\ wg = 0
    /\ closer' = "close"
    /\ UNCHANGED <<jobs, jobsClosed, results, resultsClosed, wg, pmain, nextWorker,
                   nextJob, worker, collected>>
    /\ PoolFrame

\* the closing goroutine: close(results)
CloserClose ==
    /\ closer = "close"
    /\ resultsClosed' = TRUE
    /\ closer' = "returned"
    /\ UNCHANGED <<jobs, jobsClosed, results, wg, pmain, nextWorker, nextJob,
                   worker, collected>>
    /\ PoolFrame

\* for r := range results { fmt.Println(" ", r) }: the next result, or the
\* end of the loop once results is closed and empty
Collect ==
    /\ pmain = "collect"
    /\ \/ /\ results # <<>>
          /\ collected' = Append(collected, Head(results))
          /\ results' = Tail(results)
          /\ UNCHANGED pmain
       \/ /\ results = <<>>
          /\ resultsClosed
          /\ pmain' = "returned"
          /\ UNCHANGED <<results, collected>>
    /\ UNCHANGED <<jobs, jobsClosed, resultsClosed, wg, nextWorker, nextJob,
                   worker, closer>>
    /\ PoolFrame

\* --------------------------------------------------------- mutexExample

\* the goroutines the loop starts; the program starts 1000
NumGoroutines == 3

Goroutines == 1..NumGoroutines

\* mutexExample() up to its loop: counter, mu and wg at their zero values
MutexInit ==
    /\ counter = 0
    /\ mu = 0
    /\ mwg = 0
    /\ mmain = "start"
    /\ started = 0
    /\ gor = [g \in Goroutines |-> [pc |-> "unstarted", tmp |-> 0]]
    /\ printed = 0

MutexFrame == UNCHANGED <<dbvars, apivars, poolvars, txvars>>

\* for i := 0; i < 1000; i++ { wg.Add(1); go func() {...}() }
StartGoroutine ==
    /\ mmain = "start"
    /\ IF started < NumGoroutines
       THEN /\ mwg' = mwg + 1
            /\ gor' = [gor EXCEPT ![started + 1].pc = "lock"]
            /\ started' = started + 1
            /\ UNCHANGED mmain
       ELSE /\ mmain' = "wait"
            /\ UNCHANGED <<mwg, gor, started>>
    /\ UNCHANGED <<counter, mu, printed>>
    /\ MutexFrame

\* wg.Wait() returns when the counter of the WaitGroup is zero
MainWait ==
    /\ mmain = "wait"
    /\ mwg = 0
    /\ mmain' = "print"
    /\ UNCHANGED <<counter, mu, mwg, started, gor, printed>>
    /\ MutexFrame

\* fmt.Printf("  counter = %d (should be 1000)\n", counter)
MainPrint ==
    /\ mmain = "print"
    /\ printed' = counter
    /\ mmain' = "returned"
    /\ UNCHANGED <<counter, mu, mwg, started, gor>>
    /\ MutexFrame

\* a Lock that does not wait for the Mutex to be free
Lock_NoExclusion(g) ==
    /\ gor[g].pc = "lock"
    /\ mu' = g
    /\ gor' = [gor EXCEPT ![g].pc = "load"]
    /\ UNCHANGED <<counter, mwg, mmain, started, printed>>
    /\ MutexFrame

\* mu.Lock(): waits until no goroutine holds the Mutex
Lock(g) ==
    /\ gor[g].pc = "lock"
    /\ mu = 0
    /\ mu' = g
    /\ gor' = [gor EXCEPT ![g].pc = "load"]
    /\ UNCHANGED <<counter, mwg, mmain, started, printed>>
    /\ MutexFrame

\* counter++, first half: the value of counter is read
Load(g) ==
    /\ gor[g].pc = "load"
    /\ gor' = [gor EXCEPT ![g] = [pc |-> "store", tmp |-> counter]]
    /\ UNCHANGED <<counter, mu, mwg, mmain, started, printed>>
    /\ MutexFrame

\* counter++, second half: the value read, plus one, is written
Store(g) ==
    /\ gor[g].pc = "store"
    /\ counter' = gor[g].tmp + 1
    /\ gor' = [gor EXCEPT ![g].pc = "unlock"]
    /\ UNCHANGED <<mu, mwg, mmain, started, printed>>
    /\ MutexFrame

\* mu.Unlock()
Unlock(g) ==
    /\ gor[g].pc = "unlock"
    /\ mu' = 0
    /\ gor' = [gor EXCEPT ![g].pc = "defer"]
    /\ UNCHANGED <<counter, mwg, mmain, started, printed>>
    /\ MutexFrame

\* the deferred wg.Done() as the goroutine returns
Done(g) ==
    /\ gor[g].pc = "defer"
    /\ mwg' = mwg - 1
    /\ gor' = [gor EXCEPT ![g].pc = "returned"]
    /\ UNCHANGED <<counter, mu, mmain, started, printed>>
    /\ MutexFrame

\* --------------------------------------------------- createUserWithTask

\* users.name VARCHAR(100)
NameLimit == 100

\* the calls of createUserWithTask stop when the sequence behind users.id
\* has handed out this value
MaxUserSeq == 5

\* the email of each seeded user
SeedEmails ==
    <<"alice@example.com", "bob@example.com", "charlie@example.com">>

NoTx == [open |-> FALSE, users |-> {}, tasks |-> {}]
NoArgs == [name |-> <<>>, email |-> "", taskTitle |-> <<>>]

\* the tables as a call of createUserWithTask finds them
Tables == [users |-> users, emails |-> emails, tasks |-> tasks]

TxInit ==
    /\ emails = [i \in SeedUsers |-> SeedEmails[i]]
    /\ users_id_seq = Cardinality(SeedUsers)
    /\ tx = NoTx
    /\ tpc = "idle"
    /\ targs = NoArgs
    /\ userID = 0
    /\ ret = ""
    /\ before = [users |-> SeedUsers,
                 emails |-> [i \in SeedUsers |-> SeedEmails[i]],
                 tasks |-> [i \in 1..Len(SeedTasks) |-> SeedTasks[i]]]

TxFrame == UNCHANGED <<apivars, poolvars, mutexvars>>

\* a statement failed: the function returns the wrapped error, and the
\* deferred tx.Rollback runs on the way out
TxFail(msg) ==
    /\ ret' = msg
    /\ tpc' = "deferred"

\* createUserWithTask is called
TxCall(args) ==
    /\ tpc = "idle"
    /\ users_id_seq < MaxUserSeq
    /\ tasks_id_seq < MaxSeq
    /\ targs' = args
    /\ before' = Tables
    /\ userID' = 0
    /\ ret' = ""
    /\ tpc' = "begin"
    /\ UNCHANGED <<dbvars, emails, users_id_seq, tx>>
    /\ TxFrame

\* tx, err := pool.Begin(ctx): on an error the function returns before the
\* defer is set up
TxBegin ==
    /\ tpc = "begin"
    /\ \/ /\ ret' = "begin tx"
          /\ tpc' = "returned"
          /\ UNCHANGED tx
       \/ /\ tx' = [open |-> TRUE, users |-> {}, tasks |-> {}]
          /\ tpc' = "insert_user"
          /\ UNCHANGED ret
    /\ UNCHANGED <<dbvars, emails, users_id_seq, targs, userID, before>>
    /\ TxFrame

\* INSERT INTO users (name, email) VALUES ($1, $2) RETURNING id: the id
\* comes from the sequence; the row is refused when the name is too long
\* or the email is that of a user
InsertUser(name, email) ==
    LET newid == users_id_seq + 1
    IN  IF Len(name) <= NameLimit /\ \A i \in DOMAIN emails : emails[i] # email
        THEN [err |-> FALSE, id |-> newid, seq |-> newid]
        ELSE [err |-> TRUE, id |-> 0, seq |-> newid]

\* the insert of the user on the pool, outside the transaction
TxInsertUser_OnPool ==
    /\ tpc = "insert_user"
    /\ \/ /\ TxFail("insert user")
          /\ UNCHANGED <<users_id_seq, users, emails, userID>>
       \/ LET res == InsertUser(targs.name, targs.email)
          IN  /\ users_id_seq' = res.seq
              /\ IF res.err
                 THEN /\ TxFail("insert user")
                      /\ UNCHANGED <<users, emails, userID>>
                 ELSE /\ users' = users \cup {res.id}
                      /\ emails' = [i \in DOMAIN emails \cup {res.id} |->
                                       IF i = res.id THEN targs.email ELSE emails[i]]
                      /\ userID' = res.id
                      /\ tpc' = "insert_task"
                      /\ UNCHANGED ret
    /\ UNCHANGED <<tx, tasks, tasks_id_seq, targs, before>>
    /\ TxFrame

\* err = tx.QueryRow(ctx, "INSERT INTO users ...").Scan(&userID)
TxInsertUser ==
    /\ tpc = "insert_user"
    /\ \/ /\ TxFail("insert user")
          /\ UNCHANGED <<users_id_seq, tx, userID>>
       \/ LET res == InsertUser(targs.name, targs.email)
          IN  /\ users_id_seq' = res.seq
              /\ IF res.err
                 THEN /\ TxFail("insert user")
                      /\ UNCHANGED <<tx, userID>>
                 ELSE /\ tx' = [tx EXCEPT !.users =
                                   @ \cup {[id |-> res.id, email |-> targs.email]}]
                      /\ userID' = res.id
                      /\ tpc' = "insert_task"
                      /\ UNCHANGED ret
    /\ UNCHANGED <<dbvars, emails, targs, before>>
    /\ TxFrame

\* the ids of the users the transaction sees
TxUsers == users \cup {u.id : u \in tx.users}

\* _, err = tx.Exec(ctx, "INSERT INTO tasks (user_id, title) VALUES ($1, $2)")
TxInsertTask ==
    /\ tpc = "insert_task"
    /\ \/ /\ TxFail("insert task")
          /\ UNCHANGED <<tasks_id_seq, tx>>
       \/ LET newid == tasks_id_seq + 1
          IN  /\ tasks_id_seq' = newid
              /\ IF VarcharFits(targs.taskTitle) /\ userID \in TxUsers
                 THEN /\ tx' = [tx EXCEPT !.tasks =
                                   @ \cup {[id |-> newid, user_id |-> userID,
                                            title |-> VarcharStore(targs.taskTitle),
                                            done |-> FALSE]}]
                      /\ tpc' = "commit"
                      /\ UNCHANGED ret
                 ELSE /\ TxFail("insert task")
                      /\ UNCHANGED tx
    /\ UNCHANGED <<users, tasks, emails, users_id_seq, targs, userID, before>>
    /\ TxFrame

\* tx.Commit(ctx): the rows the transaction wrote become rows of the
\* tables, or the commit fails and none does
TxCommit ==
    /\ tpc = "commit"
    /\ \/ /\ TxFail("commit")
          /\ UNCHANGED <<users, emails, tasks, tx>>
       \/ /\ users' = TxUsers
          /\ emails' = [i \in TxUsers |->
                           IF i \in users THEN emails[i]
                           ELSE (CHOOSE u \in tx.users : u.id = i).email]
          /\ tasks' = [i \in DOMAIN tasks \cup {t.id : t \in tx.tasks} |->
                          IF i \in DOMAIN tasks THEN tasks[i]
                          ELSE CHOOSE t \in tx.tasks : t.id = i]
          /\ tx' = NoTx
          /\ ret' = "nil"
          /\ tpc' = "deferred"
    /\ UNCHANGED <<tasks_id_seq, users_id_seq, targs, userID, before>>
    /\ TxFrame

\* defer tx.Rollback(ctx): what the transaction wrote and did not commit is
\* dropped; after a commit there is nothing to drop
TxRollback ==
    /\ tpc = "deferred"
    /\ tx' = NoTx
    /\ tpc' = "returned"
    /\ UNCHANGED <<dbvars, emails, users_id_seq, targs, userID, ret, before>>
    /\ TxFrame

\* the caller goes on
TxReturn ==
    /\ tpc = "returned"
    /\ tpc' = "idle"
    /\ UNCHANGED <<dbvars, emails, users_id_seq, tx, targs, userID, ret, before>>
    /\ TxFrame

NoRequest == [method |-> "", path |-> "", seg |-> <<>>, body |-> NullBody]
NoCreate == [err |-> FALSE, UserID |-> 0, Title |-> <<>>]
NoUpdate == [err |-> FALSE, Title |-> Nil, Done |-> Nil]
NoSeen == [deleted |-> FALSE, fresh |-> ZeroTask]

Init ==
    /\ users = SeedUsers
    /\ tasks = [i \in 1..Len(SeedTasks) |-> SeedTasks[i]]
    /\ tasks_id_seq = Len(SeedTasks)
    /\ pc = [r \in Req |-> "idle"]
    /\ request = [r \in Req |-> NoRequest]
    /\ id = [r \in Req |-> 0]
    /\ creq = [r \in Req |-> NoCreate]
    /\ ureq = [r \in Req |-> NoUpdate]
    /\ err = [r \in Req |-> FALSE]
    /\ stmts = [r \in Req |-> <<>>]
    /\ response = [r \in Req |-> <<>>]
    /\ seen = [r \in Req |-> NoSeen]
    /\ created = <<>>
    /\ deleted = {}
    /\ fresh = ZeroTask
    /\ PoolInit
    /\ MutexInit
    /\ TxInit

\* routes(): the handler the mux and the switch on r.Method pick
Route(method, path) ==
    CASE path = "/tasks" ->
            (CASE method = "GET" -> "list"
               [] method = "POST" -> "create"
               [] OTHER -> "notallowed")
      [] path = "/tasks/" ->
            (CASE method = "GET" -> "get"
               [] method = "PUT" -> "update"
               [] method = "DELETE" -> "delete"
               [] OTHER -> "notallowed")
      [] path = "/health" -> "health"

\* What a handler has done when it reaches its first datastore call or
\* returns before any: the next position, its locals, the responses written.
Stop(resp) ==
    [pc |-> "done", id |-> 0, creq |-> NoCreate, ureq |-> NoUpdate, response |-> <<resp>>]
Goto(p, i, c, u) ==
    [pc |-> p, id |-> i, creq |-> c, ureq |-> u, response |-> <<>>]

\* writeError(w, status, msg)
writeError(status, msg) == Stop(ErrorResponse(status, msg))

\* handleListTasks up to app.DB.Query
handleListTasks(q) == Goto("list_query", 0, NoCreate, NoUpdate)

\* handleCreateTask without the check of user_id
handleCreateTask_NoUserCheck(q) ==
    LET dec == DecodeCreate(q.body)
    IN  IF dec.err THEN writeError(StatusBadRequest, "invalid JSON body")
        ELSE IF dec.Title = <<>> THEN writeError(StatusBadRequest, "title is required")
        ELSE Goto("create_insert", 0, dec, NoUpdate)

\* handleCreateTask up to app.DB.QueryRow: decoding and validation
handleCreateTask(q) ==
    LET dec == DecodeCreate(q.body)
    IN  IF dec.err THEN writeError(StatusBadRequest, "invalid JSON body")
        ELSE IF dec.Title = <<>> THEN writeError(StatusBadRequest, "title is required")
        ELSE IF dec.UserID = 0 THEN writeError(StatusBadRequest, "user_id is required")
        ELSE Goto("create_insert", 0, dec, NoUpdate)

\* handleGetTask up to app.DB.QueryRow
handleGetTask(q) ==
    LET x == extractID(q.seg)
    IN  IF x.err THEN writeError(StatusBadRequest, "invalid task ID")
        ELSE Goto("get_select", x.val, NoCreate, NoUpdate)

\* handleUpdateTask with plain string and bool fields in place of pointers: a
\* field left out of the body is its zero value, and both are always written
handleUpdateTask_ZeroValues(q) ==
    LET x == extractID(q.seg)
        dec == DecodeUpdate(q.body)
    IN  IF x.err THEN writeError(StatusBadRequest, "invalid task ID")
        ELSE IF dec.err THEN writeError(StatusBadRequest, "invalid JSON body")
        ELSE Goto("update_title", x.val, NoCreate,
                  [err |-> FALSE,
                   Title |-> IF dec.Title.nil THEN Ptr(<<>>) ELSE dec.Title,
                   Done |-> IF dec.Done.nil THEN Ptr(FALSE) ELSE dec.Done])

\* handleUpdateTask up to its first datastore call: the first write whose
\* field is present, or the re-fetch when none is
handleUpdateTask(q) ==
    LET x == extractID(q.seg)
        dec == DecodeUpdate(q.body)
    IN  IF x.err THEN writeError(StatusBadRequest, "invalid task ID")
        ELSE IF dec.err THEN writeError(StatusBadRequest, "invalid JSON body")
        ELSE IF ~dec.Title.nil THEN Goto("update_title", x.val, NoCreate, dec)
        ELSE IF ~dec.Done.nil THEN Goto("update_done", x.val, NoCreate, dec)
        ELSE Goto("update_select", x.val, NoCreate, dec)

\* handleDeleteTask up to app.DB.Exec
handleDeleteTask(q) ==
    LET x == extractID(q.seg)
    IN  IF x.err THEN writeError(StatusBadRequest, "invalid task ID")
        ELSE Goto("delete_exec", x.val, NoCreate, NoUpdate)

\* routes(): dispatch of one request
routes(q) ==
    LET h == Route(q.method, q.path)
    IN  CASE h = "list" -> handleListTasks(q)
          [] h = "create" -> handleCreateTask(q)
          [] h = "get" -> handleGetTask(q)
          [] h = "update" -> handleUpdateTask(q)
          [] h = "delete" -> handleDeleteTask(q)
          [] h = "health" -> Stop(HealthResponse)
          [] h = "notallowed" -> writeError(StatusMethodNotAllowed, "method not allowed")

\* creates in flight that will still draw from the sequence
PendingCreates == Cardinality({r \in Req : pc[r] = "create_insert"})

\* A request arrives and its handler runs up to its first datastore call.
Receive(r, q) ==
    /\ pc[r] = "idle"
    /\ LET s == routes(q)
       IN  /\ s.pc = "create_insert" => tasks_id_seq + PendingCreates < MaxSeq
           /\ pc' = [pc EXCEPT ![r] = s.pc]
           /\ id' = [id EXCEPT ![r] = s.id]
           /\ creq' = [creq EXCEPT ![r] = s.creq]
           /\ ureq' = [ureq EXCEPT ![r] = s.ureq]
           /\ response' = [response EXCEPT ![r] = s.response]
    /\ request' = [request EXCEPT ![r] = q]
    /\ UNCHANGED <<othervars, dbvars, err, stmts, seen, created, deleted, fresh>>

\* a datastore call is logged with its outcome
Log(r, op, result) ==
    stmts' = [stmts EXCEPT ![r] = Append(@, [op |-> op, result |-> result])]

\* the handler writes its response and returns
Finish(r, resp) ==
    /\ pc' = [pc EXCEPT ![r] = "done"]
    /\ response' = [response EXCEPT ![r] = Append(@, resp)]

\* handleListTasks from app.DB.Query on. The query fails, or the rows come
\* and the scan of one of them fails, or rows.Next() ends the loop: at the
\* end of the rows and also when reading them breaks off after k rows, and
\* rows.Err() is not looked at.
ListQuery(r) ==
    /\ pc[r] = "list_query"
    /\ \/ /\ Log(r, "query", "error")
          /\ Finish(r, ErrorResponse(StatusInternalServerError, "failed to query tasks"))
       \/ /\ Len(SelectAllTasks) > 0
          /\ Log(r, "query", "scan_error")
          /\ Finish(r, ErrorResponse(StatusInternalServerError, "failed to scan task"))
       \/ \E k \in 0..Len(SelectAllTasks) :
             /\ Log(r, "query", IF k = Len(SelectAllTasks) THEN "ok" ELSE "broken")
             /\ Finish(r, ListResponse(StatusOK, SubSeq(SelectAllTasks, 1, k)))
    /\ fresh' = ZeroTask
    /\ UNCHANGED <<othervars, dbvars, request, id, creq, ureq, err, seen, created, deleted>>

\* handleCreateTask from app.DB.QueryRow(INSERT ...).Scan on
CreateInsert(r) ==
    /\ pc[r] = "create_insert"
    /\ \/ /\ Log(r, "insert", "error")
          /\ err' = [err EXCEPT ![r] = TRUE]
          /\ Finish(r, ErrorResponse(StatusInternalServerError, "failed to create task"))
          /\ fresh' = ZeroTask
          /\ UNCHANGED <<dbvars, created>>
       \/ LET res == InsertTask(creq[r].UserID, creq[r].Title)
          IN  /\ tasks_id_seq' = res.seq
              /\ tasks' = res.table
              /\ err' = [err EXCEPT ![r] = res.err]
              /\ Log(r, "insert", IF res.err THEN "error" ELSE "ok")
              /\ IF res.err
                 THEN /\ Finish(r, ErrorResponse(StatusInternalServerError,
                                                 "failed to create task"))
                      /\ fresh' = ZeroTask
                      /\ UNCHANGED created
                 ELSE /\ Finish(r, TaskResponse(StatusCreated, res.task))
                      /\ fresh' = res.task
                      /\ created' = Append(created, res.task.id)
              /\ UNCHANGED users
    /\ UNCHANGED <<othervars, request, id, creq, ureq, seen, deleted>>

\* handleGetTask from app.DB.QueryRow(SELECT ...).Scan on: any error of the
\* lookup, no row or a failed call, is answered 404
GetSelect(r) ==
    /\ pc[r] = "get_select"
    /\ \E failed \in BOOLEAN :
          LET res == IF failed THEN [err |-> TRUE, task |-> ZeroTask]
                     ELSE SelectTask(id[r])
          IN  /\ err' = [err EXCEPT ![r] = res.err]
              /\ Log(r, "select", IF failed THEN "error"
                                  ELSE IF res.err THEN "norows" ELSE "ok")
              /\ IF res.err
                 THEN Finish(r, ErrorResponse(StatusNotFound, NotFoundMsg(id[r])))
                 ELSE Finish(r, TaskResponse(StatusOK, res.task))
    /\ seen' = [seen EXCEPT ![r] = [deleted |-> id[r] \in deleted, fresh |-> fresh]]
    /\ fresh' = ZeroTask
    /\ UNCHANGED <<othervars, dbvars, request, id, creq, ureq, created, deleted>>

\* handleUpdateTask without the test of err after the writes
AfterWrites_IgnoresError(r, e) ==
    /\ pc' = [pc EXCEPT ![r] = "update_select"]
    /\ UNCHANGED response

\* handleUpdateTask writing the 500 without returning
AfterWrites_NoReturn(r, e) ==
    /\ pc' = [pc EXCEPT ![r] = "update_select"]
    /\ response' = IF e
                   THEN [response EXCEPT ![r] =
                            Append(@, ErrorResponse(StatusInternalServerError,
                                                    "failed to update task"))]
                   ELSE response

\* handleUpdateTask after its writes: err holds the outcome of the last
\* write issued, and it alone decides between the 500 and the re-fetch
AfterWrites(r, e) ==
    IF e
    THEN Finish(r, ErrorResponse(StatusInternalServerError, "failed to update task"))
    ELSE /\ pc' = [pc EXCEPT ![r] = "update_select"]
         /\ UNCHANGED response

\* handleUpdateTask: app.DB.Exec(UPDATE tasks SET title ...)
UpdateTitle(r) ==
    /\ pc[r] = "update_title"
    /\ \E failed \in BOOLEAN :
          LET res == IF failed THEN [err |-> TRUE, table |-> tasks]
                     ELSE UpdateTitleStmt(ureq[r].Title.val, id[r])
          IN  /\ tasks' = res.table
              /\ err' = [err EXCEPT ![r] = res.err]
              /\ Log(r, "update_title", IF res.err THEN "error" ELSE "ok")
              /\ IF ~ureq[r].Done.nil
                 THEN /\ pc' = [pc EXCEPT ![r] = "update_done"]
                      /\ UNCHANGED response
                 ELSE AfterWrites(r, res.err)
    /\ fresh' = ZeroTask
    /\ UNCHANGED <<othervars, users, tasks_id_seq, request, id, creq, ureq, seen, created, deleted>>

\* handleUpdateTask: app.DB.Exec(UPDATE tasks SET done ...); its result is
\* assigned to the same err
UpdateDone(r) ==
    /\ pc[r] = "update_done"
    /\ \E failed \in BOOLEAN :
          LET res == IF failed THEN [err |-> TRUE, table |-> tasks]
                     ELSE UpdateDoneStmt(ureq[r].Done.val, id[r])
          IN  /\ tasks' = res.table
              /\ err' = [err EXCEPT ![r] = res.err]
              /\ Log(r, "update_done", IF res.err THEN "error" ELSE "ok")
              /\ AfterWrites(r, res.err)
    /\ fresh' = ZeroTask
    /\ UNCHANGED <<othervars, users, tasks_id_seq, request, id, creq, ureq, seen, created, deleted>>

\* handleUpdateTask: the re-fetch; any error of it is answered 404
UpdateSelect(r) ==
    /\ pc[r] = "update_select"
    /\ \E failed \in BOOLEAN :
          LET res == IF failed THEN [err |-> TRUE, task |-> ZeroTask]
                     ELSE SelectTask(id[r])
          IN  /\ err' = [err EXCEPT ![r] = res.err]
              /\ Log(r, "select", IF failed THEN "error"
                                  ELSE IF res.err THEN "norows" ELSE "ok")
              /\ IF res.err
                 THEN Finish(r, ErrorResponse(StatusNotFound, NotFoundMsg(id[r])))
                 ELSE Finish(r, TaskResponse(StatusOK, res.task))
    /\ fresh' = ZeroTask
    /\ UNCHANGED <<othervars, dbvars, request, id, creq, ureq, seen, created, deleted>>

\* handleDeleteTask from app.DB.Exec(DELETE ...) on
DeleteExec(r) ==
    /\ pc[r] = "delete_exec"
    /\ \/ /\ Log(r, "delete", "error")
          /\ err' = [err EXCEPT ![r] = TRUE]
          /\ Finish(r, ErrorResponse(StatusInternalServerError, "failed to delete task"))
          /\ UNCHANGED <<tasks, deleted>>
       \/ LET res == DeleteStmt(id[r])
          IN  /\ tasks' = res.table
              /\ err' = [err EXCEPT ![r] = FALSE]
              /\ Log(r, "delete", "ok")
              /\ IF res.rows = 0
                 THEN /\ Finish(r, ErrorResponse(StatusNotFound, NotFoundMsg(id[r])))
                      /\ UNCHANGED deleted
                 ELSE /\ Finish(r, EmptyResponse(StatusNoContent))
                      /\ deleted' = deleted \cup {id[r]}
    /\ fresh' = ZeroTask
    /\ UNCHANGED <<othervars, users, tasks_id_seq, request, id, creq, ureq, seen, created>>

\* The response has gone out; the connection takes its next request.
Reply(r) ==
    /\ pc[r] = "done"
    /\ pc' = [pc EXCEPT ![r] = "idle"]
    /\ request' = [request EXCEPT ![r] = NoRequest]
    /\ id' = [id EXCEPT ![r] = 0]
    /\ creq' = [creq EXCEPT ![r] = NoCreate]
    /\ ureq' = [ureq EXCEPT ![r] = NoUpdate]
    /\ err' = [err EXCEPT ![r] = FALSE]
    /\ stmts' = [stmts EXCEPT ![r] = <<>>]
    /\ response' = [response EXCEPT ![r] = <<>>]
    /\ seen' = [seen EXCEPT ![r] = NoSeen]
    /\ UNCHANGED <<othervars, dbvars, created, deleted, fresh>>

\* ------------------------------------------------------------- inputs

Methods == {"GET", "POST", "PUT", "DELETE", "PATCH"}

\* what follows "/tasks/" in the path
Segs == {<<>>, <<"a">>, <<"0">>, <<"-", "1">>, <<"1">>, <<"6">>, <<"+", "6">>, <<"6", "/">>}

TitleA == <<"a">>
TitleB == <<"b">>
\* one character too long, the excess a space: stored cut to TitleLimit
TitlePadded == <<"a">> \o Rep(" ", TitleLimit)
\* one character too long: refused
TitleLong == Rep("a", TitleLimit + 1)

CreateBodies ==
    {BadBody, NullBody}
    \cup {ObjBody(u, t, JAbsent) :
            u \in {JAbsent, JNum(0), JNum(1), JNum(9), JStr(TitleA)},
            t \in {JAbsent, JStr(<<>>), JStr(TitleA), JStr(TitlePadded),
                   JStr(TitleLong), JNum(1)}}

UpdateBodies ==
    {BadBody, NullBody}
    \cup {ObjBody(JAbsent, t, d) :
            t \in {JAbsent, JStr(<<>>), JStr(TitleA), JStr(TitlePadded),
                   JStr(TitleLong), JNum(1)},
            d \in {JAbsent, JBool(TRUE), JBool(FALSE), JStr(TitleA)}}

Requests ==
    {[method |-> m, path |-> "/tasks", seg |-> <<>>, body |-> NullBody] :
        m \in Methods \ {"POST"}}
    \cup {[method |-> "POST", path |-> "/tasks", seg |-> <<>>, body |-> b] :
            b \in CreateBodies}
    \cup {[method |-> m, path |-> "/tasks/", seg |-> s, body |-> NullBody] :
            m \in Methods \ {"PUT"}, s \in Segs}
    \cup {[method |-> "PUT", path |-> "/tasks/", seg |-> s, body |-> b] :
            s \in Segs, b \in UpdateBodies}
    \cup {[method |-> m, path |-> "/health", seg |-> <<>>, body |-> NullBody] :
            m \in Methods}

\* the arguments of the calls: a name that fits and one that does not, the
\* email of a seeded user and two new ones, a title that fits, one that is
\* cut and one that is refused
NameEve == <<"E", "v", "e">>
TxArgs ==
    [name : {NameEve, Rep("n", NameLimit + 1)},
     email : {"alice@example.com", "eve@example.com", "dave@example.com"},
     taskTitle : {TitleA, TitlePadded, TitleLong}]

\* ------------------------------------------------------- specifications

Step(r) ==
    \/ ListQuery(r)
    \/ CreateInsert(r)
    \/ GetSelect(r)
    \/ UpdateTitle(r)
    \/ UpdateDone(r)
    \/ UpdateSelect(r)
    \/ DeleteExec(r)
    \/ Reply(r)

\* One request at a time, any request.
Next ==
    \/ \E q \in Requests : Receive(1, q)
    \/ Step(1)

Spec == Init /\ [][Next]_vars

\* the requests of the concurrent runs: the list, creates, and reads, full
\* updates and deletes of the first task created
ConcSegs == {<<"6">>}

ConcRequests ==
    {[method |-> "GET", path |-> "/tasks", seg |-> <<>>, body |-> NullBody]}
    \cup {[method |-> "POST", path |-> "/tasks", seg |-> <<>>,
      body |-> ObjBody(JNum(1), JStr(t), JAbsent)] : t \in {TitleA, TitlePadded}}
    \cup {[method |-> m, path |-> "/tasks/", seg |-> s, body |-> NullBody] :
            m \in {"GET", "DELETE"}, s \in ConcSegs}
    \cup {[method |-> "PUT", path |-> "/tasks/", seg |-> s, body |-> b] :
            s \in ConcSegs,
            b \in {ObjBody(JAbsent, JStr(TitleA), JBool(TRUE)),
                   ObjBody(JAbsent, JStr(TitleB), JBool(FALSE))}}

\* Requests served at the same time: their statements interleave.
ConcNext ==
    \E r \in Req :
        \/ \E q \in ConcRequests : Receive(r, q)
        \/ Step(r)

ConcSpec == Init /\ [][ConcNext]_vars

\* the requests of the list runs: the list, a create, and the delete of
\* each seeded task
ListSegs == {<<"1">>, <<"2">>, <<"3">>, <<"4">>, <<"5">>}

ListRequests ==
    {[method |-> "GET", path |-> "/tasks", seg |-> <<>>, body |-> NullBody],
     [method |-> "POST", path |-> "/tasks", seg |-> <<>>,
      body |-> ObjBody(JNum(1), JStr(TitleA), JAbsent)]}
    \cup {[method |-> "DELETE", path |-> "/tasks/", seg |-> s, body |-> NullBody] :
            s \in ListSegs}

\* One request at a time: lists of a table that creates and deletes change.
ListNext ==
    \/ \E q \in ListRequests : Receive(1, q)
    \/ ListQuery(1)
    \/ CreateInsert(1)
    \/ DeleteExec(1)
    \/ Reply(1)

ListSpec == Init /\ [][ListNext]_vars

\* workerPool() alone, under every interleaving of its goroutines
PoolNext ==
    \/ StartWorker
    \/ SendJob
    \/ CloseJobs
    \/ StartCloser
    \/ \E w \in Workers : WorkerRange(w) \/ WorkerSend(w)
    \/ CloserWait
    \/ CloserClose
    \/ Collect

\* the Go scheduler: a goroutine that can run does run
PoolFairSpec ==
    /\ Init
    /\ [][PoolNext]_vars
    /\ WF_vars(StartWorker \/ SendJob \/ CloseJobs \/ StartCloser \/ Collect)
    /\ WF_vars(CloserWait \/ CloserClose)
    /\ \A w \in Workers : WF_vars(WorkerRange(w) \/ WorkerSend(w))

\* mutexExample() alone, under every interleaving of its goroutines
MutexNext ==
    \/ StartGoroutine
    \/ MainWait
    \/ MainPrint
    \/ \E g \in Goroutines : Lock(g) \/ Load(g) \/ Store(g) \/ Unlock(g) \/ Done(g)

MutexSpec == Init /\ [][MutexNext]_vars

\* createUserWithTask() called again and again, one call at a time
TxNext ==
    \/ \E args \in TxArgs : TxCall(args)
    \/ TxBegin
    \/ TxInsertUser
    \/ TxInsertTask
    \/ TxCommit
    \/ TxRollback
    \/ TxReturn

TxSpec == Init /\ [][TxNext]_vars

\* ----------------------------------------------------------- properties

\* the handler serving request r
Handler(r) == IF pc[r] = "idle" THEN "none" ELSE Route(request[r].method, request[r].path)

\* the response request r got
Answered(r) == pc[r] = "done" /\ Len(response[r]) > 0
Resp(r) == response[r][Len(response[r])]

\* the outcomes of the datastore calls of request r named op
Outcomes(r, op) ==
    {stmts[r][i].result : i \in {j \in 1..Len(stmts[r]) : stmts[r][j].op = op}}

IsError(resp, status, msg) ==
    resp.status = status /\ resp.kind = "error" /\ resp.error = msg

\* C1: a PUT /tasks/{id} one of whose field writes failed is answered 500,
\* whichever of the writes it was and whatever the other write did.
C1_WriteFailureIs500 ==
    \A r \in Req :
        (/\ Answered(r)
         /\ Handler(r) = "update"
         /\ id[r] >= 1
         /\ "error" \in Outcomes(r, "update_title") \cup Outcomes(r, "update_done"))
        => Resp(r).status = StatusInternalServerError

\* C2: GET /tasks/{id} and the re-fetch of PUT /tasks/{id} answer 404 only
\* when the lookup found no row; a lookup that failed is answered 500.
C2_LookupFailureIs500 ==
    \A r \in Req :
        (Answered(r) /\ Handler(r) \in {"get", "update"} /\ id[r] >= 1)
        => /\ Resp(r).status = StatusNotFound => Outcomes(r, "select") = {"norows"}
           /\ "error" \in Outcomes(r, "select")
                 => Resp(r).status = StatusInternalServerError

\* the methods the spec lists for each registered path
ListedMethods(path) ==
    CASE path = "/tasks" -> {"GET", "POST"}
      [] path = "/tasks/" -> {"GET", "PUT", "DELETE"}
      [] path = "/health" -> {"GET"}

\* C3: on every registered path a method that is not listed for it is
\* answered 405 {"error": "method not allowed"} with no datastore call;
\* only GET /health gets the OK payload.
C3_UnlistedMethodIs405 ==
    \A r \in Req :
        Answered(r) =>
            /\ request[r].method \notin ListedMethods(request[r].path)
                  => /\ IsError(Resp(r), StatusMethodNotAllowed, "method not allowed")
                     /\ stmts[r] = <<>>
            /\ Resp(r).kind = "health"
                  => request[r].method = "GET" /\ request[r].path = "/health"

\* the id segment is a positive integer
PositiveSeg(seg) == ~extractID(seg).err /\ extractID(seg).val > 0

\* the id segment, less one trailing "/", is a decimal integer as written:
\* digits, with or without one sign in front
IntegerSeg(seg) ==
    LET s == TrimSuffixSlash(seg)
    IN  \E k \in 0..1 :
           /\ Len(s) > k
           /\ k = 1 => s[1] \in {"+", "-"}
           /\ \A i \in (k + 1)..Len(s) : s[i] \in Digits

\* request r is for /tasks/{id}, with a body its handler can decode
ById(r) ==
    /\ Handler(r) \in {"get", "update", "delete"}
    /\ Handler(r) = "update" => ~DecodeUpdate(request[r].body).err

RejectedId(r) ==
    /\ IsError(Resp(r), StatusBadRequest, "invalid task ID")
    /\ stmts[r] = <<>>

\* C4 (as claimed): GET, PUT and DELETE on /tasks/{id} accept the id segment
\* only if it is a positive integer; any other segment is answered
\* 400 {"error": "invalid task ID"} with no datastore call.
C4_OnlyPositiveIdAccepted ==
    \A r \in Req :
        (pc[r] # "idle" /\ ById(r) /\ ~PositiveSeg(request[r].seg))
        => Answered(r) /\ RejectedId(r)

\* C4 (amended): the id segment is accepted exactly if it is a decimal
\* integer of either sign; a segment that is none (empty, non-numeric) is
\* answered 400 {"error": "invalid task ID"} with no datastore call, and zero
\* and negative integers go on to the handler like any other id.
C4_OnlyIntegerIdAccepted ==
    \A r \in Req :
        (pc[r] # "idle" /\ ById(r)) =>
            IF IntegerSeg(request[r].seg)
            THEN /\ id[r] = extractID(request[r].seg).val
                 /\ Answered(r) => Resp(r).status # StatusBadRequest /\ Len(stmts[r]) >= 1
            ELSE Answered(r) /\ RejectedId(r)

\* C4 witness: a GET whose segment was zero or negative went to the
\* datastore, and one whose segment was no integer was refused.
C4_Witness ==
    /\ Answered(1)
    /\ Handler(1) = "get"
    /\ id[1] <= 0
    /\ IntegerSeg(request[1].seg)
    /\ Outcomes(1, "select") = {"norows"}
    /\ Resp(1).status = StatusNotFound

\* C5: every stored task has a non-empty title, whatever creates, updates
\* and deletes were served.
C5_TitlesNonEmpty ==
    \A i \in DOMAIN tasks : tasks[i].title # <<>>

\* two requests on the same task that each carry a title and a done, every
\* statement of both having gone through
FullUpdate(r) ==
    /\ Answered(r)
    /\ Handler(r) = "update"
    /\ ~ureq[r].Title.nil /\ ~ureq[r].Done.nil
    /\ Len(stmts[r]) = 3
    /\ \A i \in 1..3 : stmts[r][i].result = "ok"
    /\ Resp(r).status = StatusOK

\* C6: after two PUT /tasks/{id} on the same task, each with title and
\* done, the stored (title, done) is the pair of one of the two requests.
C6_LastWriterWins ==
    \A r1, r2 \in Req :
        (/\ r1 # r2
         /\ FullUpdate(r1) /\ FullUpdate(r2)
         /\ id[r1] = id[r2]
         /\ id[r1] \in DOMAIN tasks)
        => \E r \in {r1, r2} :
              /\ tasks[id[r]].title = ureq[r].Title.val
              /\ tasks[id[r]].done = ureq[r].Done.val

\* what is wrong with the body of a POST /tasks, read off the body itself
WrongType(b) ==
    \/ b.user_id.t \notin {"absent", "null", "num"}
    \/ b.title.t \notin {"absent", "null", "str"}
TitleEmpty(b) ==
    b.title.t \in {"absent", "null"} \/ (b.title.t = "str" /\ b.title.v = <<>>)
UserZero(b) ==
    b.user_id.t \in {"absent", "null"} \/ (b.user_id.t = "num" /\ b.user_id.v = 0)
CreateDefect(b) ==
    IF b.syntax = "bad" \/ WrongType(b) THEN "invalid JSON body"
    ELSE IF TitleEmpty(b) THEN "title is required"
    ELSE IF UserZero(b) THEN "user_id is required"
    ELSE ""

\* C7: a POST /tasks whose body is malformed, or well-formed with an empty
\* title or a zero user_id, is answered 400 with the message of that defect
\* at once: no datastore call is made and the tables stay as they were.
C7_InvalidCreateRejected ==
    [][\A r \in Req :
          (/\ pc[r] = "idle" /\ pc'[r] # "idle"
           /\ Route(request'[r].method, request'[r].path) = "create"
           /\ CreateDefect(request'[r].body) # "")
          => /\ pc'[r] = "done"
             /\ response'[r] = <<ErrorResponse(StatusBadRequest,
                                               CreateDefect(request'[r].body))>>
             /\ stmts'[r] = <<>>
             /\ tasks' = tasks /\ tasks_id_seq' = tasks_id_seq /\ users' = users]_vars

\* C7 witness: a create with a title and user_id 0 was refused before any
\* datastore call.
C7_Witness ==
    /\ Answered(1)
    /\ Handler(1) = "create"
    /\ CreateDefect(request[1].body) = "user_id is required"
    /\ IsError(Resp(1), StatusBadRequest, "user_id is required")
    /\ stmts[1] = <<>>

NoDuplicates(s) == \A i, j \in 1..Len(s) : i # j => s[i] # s[j]

Created(r) ==
    /\ Answered(r)
    /\ Handler(r) = "create"
    /\ Outcomes(r, "insert") = {"ok"}

\* C8 (as claimed): a successful POST /tasks is answered 201 with a record
\* whose done is false and whose user_id and title are the request's, and
\* whose id no other successful create has returned.
C8_CreateEchoesRequest ==
    /\ \A r \in Req :
          Created(r) =>
             /\ Resp(r).status = StatusCreated /\ Resp(r).kind = "task"
             /\ Resp(r).task.done = FALSE
             /\ Resp(r).task.user_id = request[r].body.user_id.v
             /\ Resp(r).task.title = request[r].body.title.v
    /\ NoDuplicates(created)

\* C8 (amended): as claimed, but the title returned is the title stored: the
\* request's title, cut to its first 255 characters when it is longer (it is
\* stored only if the characters beyond are all spaces).
C8_CreateReturnsStored ==
    /\ \A r \in Req :
          Created(r) =>
             /\ Resp(r).status = StatusCreated /\ Resp(r).kind = "task"
             /\ Resp(r).task.done = FALSE
             /\ Resp(r).task.user_id = request[r].body.user_id.v
             /\ LET t == request[r].body.title.v
                IN  Resp(r).task.title =
                        IF Len(t) <= TitleLimit THEN t ELSE SubSeq(t, 1, TitleLimit)
             /\ \E i \in 1..Len(created) : created[i] = Resp(r).task.id
    /\ NoDuplicates(created)

\* C8 witness: a second create succeeded after the task of the first was
\* deleted, and a create of an over-long padded title was answered 201.
C8_Witness ==
    /\ Created(1)
    /\ Len(created) = 2
    /\ created[1] \in deleted
    /\ Len(request[1].body.title.v) > TitleLimit
    /\ Resp(1).status = StatusCreated

\* request r is a GET /tasks/n that ran right after the create that returned
\* n, no other statement between the two
GetAfterCreate(r) ==
    /\ Answered(r)
    /\ Handler(r) = "get"
    /\ seen[r].fresh # ZeroTask
    /\ id[r] = seen[r].fresh.id

\* C9 (as claimed): GET /tasks/n right after the POST /tasks that returned
\* id n is answered 200 with the record the POST returned.
C9_GetAfterCreateIs200 ==
    \A r \in Req :
        GetAfterCreate(r) =>
            /\ Resp(r).status = StatusOK /\ Resp(r).kind = "task"
            /\ Resp(r).task = seen[r].fresh

\* C9 (amended): GET /tasks/n right after the POST /tasks that returned id
\* n is answered 200 with the record the POST returned, unless the lookup
\* itself fails in the datastore; then it is answered 404.
C9_GetAfterCreateUnlessFailure ==
    \A r \in Req :
        GetAfterCreate(r) =>
            IF "error" \in Outcomes(r, "select")
            THEN IsError(Resp(r), StatusNotFound, NotFoundMsg(id[r]))
            ELSE /\ Resp(r).status = StatusOK /\ Resp(r).kind = "task"
                 /\ Resp(r).task = seen[r].fresh

\* C9 witness: the GET after a create of an over-long padded title returned
\* the record of the POST.
C9_Witness ==
    /\ GetAfterCreate(1)
    /\ Resp(1).status = StatusOK
    /\ Resp(1).task = seen[1].fresh
    /\ Len(Resp(1).task.title) = TitleLimit

\* C10: once DELETE /tasks/{id} was answered 204, every GET /tasks/{id} for
\* that id is answered 404 {"error": "task <id> not found"}, whatever was
\* created, updated or deleted since.
C10_DeletedStaysGone ==
    \A r \in Req :
        (Answered(r) /\ Handler(r) = "get" /\ seen[r].deleted)
        => IsError(Resp(r), StatusNotFound, NotFoundMsg(id[r]))

\* C10 witness: a GET of a deleted task was answered 404 after the lookup
\* found no row, another task having been created since the delete.
C10_Witness ==
    /\ Answered(1)
    /\ Handler(1) = "get"
    /\ seen[1].deleted
    /\ Outcomes(1, "select") = {"norows"}
    /\ Resp(1).status = StatusNotFound
    /\ \E i \in DOMAIN tasks : i > id[1]

\* the fields a PUT body carries, read off the body itself
GoodUpdate(b) ==
    /\ b.syntax # "bad"
    /\ b.title.t \in {"absent", "null", "str"}
    /\ b.done.t \in {"absent", "null", "bool"}
HasTitle(b) == b.title.t = "str"
HasDone(b) == b.done.t = "bool"
EmptyUpdate(b) == GoodUpdate(b) /\ ~HasTitle(b) /\ ~HasDone(b)

\* request r takes a step of handleUpdateTask past the decoding
UpdateStep(r) ==
    /\ pc[r] \in {"update_title", "update_done", "update_select"}
    /\ pc'[r] # pc[r]

\* request r is an answered PUT with no field in its body, on a task that exists
EmptyUpdateDone(r) ==
    /\ Answered(r)
    /\ Handler(r) = "update"
    /\ EmptyUpdate(request[r].body)
    /\ id[r] \in DOMAIN tasks

\* C11 (as claimed): PUT /tasks/{id} with body {} on an existing task issues
\* no write and is answered 200 with the task's current record.
C11_EmptyUpdateIs200 ==
    \A r \in Req :
        EmptyUpdateDone(r) =>
            /\ Outcomes(r, "update_title") \cup Outcomes(r, "update_done") = {}
            /\ Resp(r).status = StatusOK /\ Resp(r).kind = "task"
            /\ Resp(r).task = tasks[id[r]]

\* C11 (amended): PUT /tasks/{id} with body {} on an existing task issues no
\* write, only the re-fetch, and leaves every stored task as it was; it is
\* answered 200 with the task's current record unless the re-fetch fails in
\* the datastore, and then it is answered 404.
C11_EmptyUpdateUnlessFailure ==
    /\ [](\A r \in Req :
            EmptyUpdateDone(r) =>
               /\ Len(stmts[r]) = 1 /\ stmts[r][1].op = "select"
               /\ IF stmts[r][1].result = "error"
                  THEN IsError(Resp(r), StatusNotFound, NotFoundMsg(id[r]))
                  ELSE /\ Resp(r).status = StatusOK /\ Resp(r).kind = "task"
                       /\ Resp(r).task = tasks[id[r]])
    /\ [][\A r \in Req :
            (UpdateStep(r) /\ EmptyUpdate(request[r].body)) => tasks' = tasks]_vars

\* C11 witness: a PUT with body {} on task 1 was answered 200 with the
\* seeded record.
C11_Witness ==
    /\ EmptyUpdateDone(1)
    /\ request[1].body.syntax = "object"
    /\ Resp(1).status = StatusOK
    /\ Resp(1).task = SeedTasks[1]

\* C12: PUT /tasks/{id} writes only the fields its body carries: no step of
\* it adds or removes a task or touches a task's id or user_id or any task
\* but its own, and it leaves the title alone when the body has no title and
\* done alone when the body has no done.
C12_UpdateWritesPresentFieldsOnly ==
    /\ [](\A r \in Req :
            (pc[r] # "idle" /\ Handler(r) = "update") =>
               /\ Outcomes(r, "update_title") # {} => HasTitle(request[r].body)
               /\ Outcomes(r, "update_done") # {} => HasDone(request[r].body))
    /\ [][\A r \in Req :
            UpdateStep(r) =>
               /\ DOMAIN tasks' = DOMAIN tasks
               /\ \A i \in DOMAIN tasks :
                     /\ tasks'[i].id = tasks[i].id
                     /\ tasks'[i].user_id = tasks[i].user_id
                     /\ i # id[r] => tasks'[i] = tasks[i]
                     /\ ~HasTitle(request[r].body) => tasks'[i].title = tasks[i].title
                     /\ ~HasDone(request[r].body) => tasks'[i].done = tasks[i].done]_vars

\* C12 witness: a PUT carrying only done = false on task 1 changed its done
\* and left its seeded title.
C12_Witness ==
    /\ Answered(1)
    /\ Handler(1) = "update"
    /\ ~HasTitle(request[1].body) /\ HasDone(request[1].body)
    /\ Outcomes(1, "update_done") = {"ok"}
    /\ id[1] = 1 /\ 1 \in DOMAIN tasks
    /\ tasks[1].done = FALSE /\ SeedTasks[1].done = TRUE
    /\ tasks[1].title = SeedTasks[1].title
    /\ Resp(1).status = StatusOK

\* request r takes the step of handleDeleteTask that issues the DELETE
DeleteStep(r) == pc[r] = "delete_exec" /\ pc'[r] = "done"

\* what a DELETE of request r that goes through does
DeleteEffect(r) ==
    IF id[r] \in DOMAIN tasks
    THEN /\ response'[r] = <<EmptyResponse(StatusNoContent)>>
         /\ tasks' = [i \in DOMAIN tasks \ {id[r]} |-> tasks[i]]
    ELSE /\ response'[r] = <<ErrorResponse(StatusNotFound, NotFoundMsg(id[r]))>>
         /\ tasks' = tasks

\* C13 (as claimed): DELETE /tasks/{id} is answered 204 with no body exactly
\* when a task with that id existed, and then that task and no other is
\* removed; when none existed it is answered 404 and the tasks stay as they
\* were.
C13_DeleteIs204IffExisted ==
    [][\A r \in Req : DeleteStep(r) => DeleteEffect(r)]_vars

\* C13 (amended): as claimed when the DELETE statement goes through; when it
\* fails in the datastore the answer is 500 and the tasks stay as they were.
C13_DeleteUnlessFailure ==
    [][\A r \in Req :
          DeleteStep(r) =>
             IF stmts'[r] = <<[op |-> "delete", result |-> "error"]>>
             THEN /\ response'[r] = <<ErrorResponse(StatusInternalServerError,
                                                    "failed to delete task")>>
                  /\ tasks' = tasks
             ELSE /\ stmts'[r] = <<[op |-> "delete", result |-> "ok"]>>
                  /\ DeleteEffect(r)]_vars

\* C13 witness: the DELETE of task 1 was answered 204 with no body and the
\* other seeded tasks are all there.
C13_Witness ==
    /\ Answered(1)
    /\ Handler(1) = "delete"
    /\ Resp(1) = EmptyResponse(StatusNoContent)
    /\ id[1] = 1
    /\ DOMAIN tasks = {2, 3, 4, 5}

\* the outcome of the last field write among the calls ss, "none" if there
\* is no write among them
RECURSIVE LastWrite(_)
LastWrite(ss) ==
    IF Len(ss) = 0 THEN "none"
    ELSE IF ss[Len(ss)].op \in {"update_title", "update_done"} THEN ss[Len(ss)].result
    ELSE LastWrite(SubSeq(ss, 1, Len(ss) - 1))

\* a step changes which tasks exist only by a create adding one new id or a
\* delete removing the id it names
ExistenceByCreateAndDelete ==
    DOMAIN tasks' # DOMAIN tasks =>
        \E r \in Req :
            \/ /\ pc[r] = "create_insert"
               /\ \E n \in DOMAIN tasks' \ DOMAIN tasks : DOMAIN tasks' = DOMAIN tasks \cup {n}
            \/ /\ pc[r] = "delete_exec"
               /\ id[r] \in DOMAIN tasks
               /\ DOMAIN tasks' = DOMAIN tasks \ {id[r]}

\* request r, a PUT on an id that has no task, gets its answer
UpdateOfNoneAnswered(r) ==
    /\ UpdateStep(r)
    /\ pc'[r] = "done"
    /\ id[r] \notin DOMAIN tasks

\* C14 (as claimed): tasks come to exist only by a create and cease to exist
\* only by a delete; no step of a PUT adds or removes a task, and a PUT on an
\* id that has no task is answered 404 with the tasks as they were.
C14_UpdateOfNoneIs404 ==
    [][/\ ExistenceByCreateAndDelete
       /\ \A r \in Req :
             /\ UpdateStep(r) => DOMAIN tasks' = DOMAIN tasks
             /\ UpdateOfNoneAnswered(r) =>
                   /\ response'[r] = <<ErrorResponse(StatusNotFound, NotFoundMsg(id[r]))>>
                   /\ tasks' = tasks]_vars

\* C14 (amended): as claimed, except that a PUT on an id that has no task is
\* answered 500 when the last field write it issued failed in the datastore;
\* otherwise it is answered 404. The tasks stay as they were either way.
C14_UpdateOfNoneUnlessFailure ==
    [][/\ ExistenceByCreateAndDelete
       /\ \A r \in Req :
             /\ UpdateStep(r) => DOMAIN tasks' = DOMAIN tasks
             /\ UpdateOfNoneAnswered(r) =>
                   /\ response'[r] =
                         IF LastWrite(stmts'[r]) = "error"
                         THEN <<ErrorResponse(StatusInternalServerError,
                                              "failed to update task")>>
                         ELSE <<ErrorResponse(StatusNotFound, NotFoundMsg(id[r]))>>
                   /\ tasks' = tasks]_vars

\* C14 witness: a PUT carrying title and done on id 6, which has no task,
\* ran its three statements and was answered 404; the seeded tasks are there
\* and no other.
C14_Witness ==
    /\ Answered(1)
    /\ Handler(1) = "update"
    /\ id[1] = 6
    /\ Len(stmts[1]) = 3
    /\ LastWrite(stmts[1]) = "ok"
    /\ IsError(Resp(1), StatusNotFound, NotFoundMsg(6))
    /\ DOMAIN tasks = 1..5

\* request r is a PUT whose title write went through and whose done write
\* then failed
TitleOkDoneFailed(ss) ==
    ss = <<[op |-> "update_title", result |-> "ok"],
           [op |-> "update_done", result |-> "error"]>>

\* C15: when the title write of a PUT goes through and its done write then
\* fails, the answer is 500, the failed write changes nothing (done keeps its
\* value and the title written is not taken back), and the task holds the
\* new title as the column stored it.
C15_PartialUpdateNotRolledBack ==
    /\ [](\A r \in Req :
            (pc[r] # "idle" /\ Handler(r) = "update" /\ TitleOkDoneFailed(stmts[r])) =>
               /\ Answered(r)
               /\ response[r] = <<ErrorResponse(StatusInternalServerError,
                                                "failed to update task")>>
               /\ id[r] \in DOMAIN tasks =>
                     tasks[id[r]].title = VarcharStore(request[r].body.title.v))
    /\ [][\A r \in Req :
            /\ (UpdateStep(r) /\ pc[r] = "update_title") =>
                  \A i \in DOMAIN tasks : tasks'[i].done = tasks[i].done
            /\ (UpdateStep(r) /\ TitleOkDoneFailed(stmts'[r])) => tasks' = tasks]_vars

\* C15 witness: a PUT of title "a" and done = false on task 1, whose done
\* write failed, was answered 500; task 1 has the new title and its seeded
\* done.
C15_Witness ==
    /\ Answered(1)
    /\ Handler(1) = "update"
    /\ TitleOkDoneFailed(stmts[1])
    /\ id[1] = 1
    /\ request[1].body.title.v = TitleA
    /\ request[1].body.done.v = FALSE
    /\ tasks[1].title = TitleA
    /\ tasks[1].done = TRUE
    /\ Resp(1).status = StatusInternalServerError

\* request r listed the tasks and the datastore gave all the rows
ListedAll(r) ==
    /\ Answered(r)
    /\ Handler(r) = "list"
    /\ stmts[r] = <<[op |-> "query", result |-> "ok"]>>

\* C16: a GET /tasks that the datastore served in full is answered 200 with
\* a JSON array, never null, that holds every stored task once and nothing
\* else, in strictly ascending order of id; with no task stored the array is
\* empty.
C16_ListIsAllTasksAscending ==
    \A r \in Req :
        ListedAll(r) =>
            LET ts == Resp(r).tasks
            IN  /\ Len(response[r]) = 1
                /\ Resp(r).status = StatusOK
                /\ Resp(r).kind = "tasks"
                /\ Len(ts) = Cardinality(DOMAIN tasks)
                /\ \A i \in DOMAIN tasks : \E k \in 1..Len(ts) : ts[k] = tasks[i]
                /\ \A k \in 1..Len(ts) :
                      ts[k].id \in DOMAIN tasks /\ ts[k] = tasks[ts[k].id]
                /\ \A j, k \in 1..Len(ts) : j < k => ts[j].id < ts[k].id
                /\ DOMAIN tasks = {} => ts = <<>>

\* C16 witness: every seeded task was deleted, and the list of the empty
\* table was answered 200 with the empty array.
C16_Witness ==
    /\ ListedAll(1)
    /\ DOMAIN tasks = {}
    /\ Resp(1).status = StatusOK
    /\ Resp(1).kind = "tasks"
    /\ Resp(1).tasks = <<>>

\* C17: a GET /tasks during which the datastore failed, at the query, at a
\* scan or part-way through the rows, is answered 500 with an error body.
C17_ListFailureIs500 ==
    \A r \in Req :
        (Answered(r) /\ Handler(r) = "list" /\ "ok" \notin Outcomes(r, "query")) =>
            /\ Resp(r).status = StatusInternalServerError
            /\ Resp(r).kind = "error"

\* the statuses of success
Is2xx(status) == status \in {StatusOK, StatusCreated, StatusNoContent}

\* C18: a request gets at most one response, and a response whose status is
\* not a 2xx is 400, 404, 405 or 500 and its body is the object with the one
\* key "error" and a message.
C18_OneResponseErrorsAreErrorObjects ==
    \A r \in Req :
        /\ Len(response[r]) <= 1
        /\ \A k \in 1..Len(response[r]) :
              ~Is2xx(response[r][k].status) =>
                  /\ response[r][k].status \in
                        {StatusBadRequest, StatusNotFound,
                         StatusMethodNotAllowed, StatusInternalServerError}
                  /\ response[r][k].kind = "error"
                  /\ response[r][k].error # ""

\* C18 witness: a PUT whose second write failed got the 500 as its one
\* response.
C18_Witness ==
    /\ Answered(1)
    /\ Handler(1) = "update"
    /\ Len(stmts[1]) = 2
    /\ Len(response[1]) = 1
    /\ Resp(1).status = StatusInternalServerError
    /\ Resp(1).kind = "error"

\* request r is a create that reached the datastore with a user_id that is
\* not zero and is not the id of a user
CreateForNoUser(r) ==
    /\ Handler(r) = "create"
    /\ pc[r] \in {"create_insert", "done"}
    /\ creq[r].UserID # 0
    /\ creq[r].UserID \notin users

\* C19: every stored task has the user_id of a user; a create whose user_id
\* is not zero and names no user changes no task and is answered 500, its
\* insert having failed.
C19_CreateNeedsExistingUser ==
    /\ [](/\ \A i \in DOMAIN tasks : tasks[i].user_id \in users
          /\ \A r \in Req :
                (CreateForNoUser(r) /\ pc[r] = "done") =>
                    /\ stmts[r] = <<[op |-> "insert", result |-> "error"]>>
                    /\ response[r] = <<ErrorResponse(StatusInternalServerError,
                                                     "failed to create task")>>)
    /\ [][\A r \in Req :
            (CreateForNoUser(r) /\ pc[r] = "create_insert" /\ pc'[r] = "done") =>
                /\ tasks' = tasks
                /\ created' = created]_vars

\* C19 witness: a create for user 9, who does not exist, with a good title
\* was answered 500; the id the sequence gave is the id of no task.
C19_Witness ==
    /\ Answered(1)
    /\ CreateForNoUser(1)
    /\ creq[1].UserID = 9
    /\ creq[1].Title = TitleA
    /\ Resp(1).status = StatusInternalServerError
    /\ tasks_id_seq = 6
    /\ 6 \notin DOMAIN tasks

\* the outcomes of a datastore call that are failures of the datastore
Failures == {"error", "scan_error", "broken"}

\* C20: within one request no statement is issued twice, and a list, create
\* or delete request during which the datastore failed issued that one
\* call and was answered 500.
C20_NoRetryFirstFailureIs500 ==
    \A r \in Req :
        /\ \A j, k \in 1..Len(stmts[r]) : stmts[r][j].op = stmts[r][k].op => j = k
        /\ (/\ Answered(r)
            /\ Handler(r) \in {"list", "create", "delete"}
            /\ \E k \in 1..Len(stmts[r]) : stmts[r][k].result \in Failures) =>
               /\ Len(stmts[r]) = 1
               /\ Resp(r).status = StatusInternalServerError

\* the results of job j that were sent: those still in the channel and
\* those collected
ResultsOf(j) ==
    LET sent == collected \o results
    IN  {k \in 1..Len(sent) : \E w \in Workers : sent[k] = Sprintf(w, j)}

\* some goroutine of workerPool can take a step
PoolCanStep == ENABLED PoolNext

\* C21: workerPool always returns and is never stuck before that; no job
\* has two results, and when it returns each job has exactly one, made by
\* one worker, and the collector has received exactly numJobs results;
\* results is closed only when every worker has returned, and no worker
\* sends on the closed channel.
C21_PoolTerminatesOneResultPerJob ==
    /\ [](/\ pmain # "returned" => PoolCanStep
          /\ \A j \in 1..numJobs : Cardinality(ResultsOf(j)) <= 1
          /\ resultsClosed => \A w \in Workers : worker[w].pc = "returned"
          /\ \A w \in Workers : worker[w].pc # "panic"
          /\ pmain = "returned" =>
                /\ Len(collected) = numJobs
                /\ results = <<>>
                /\ \A j \in 1..numJobs : Cardinality(ResultsOf(j)) = 1)
    /\ <>(pmain = "returned")

\* C21 witness: workerPool has returned with numJobs results, the first from
\* worker 2 for job 1, the third job done by worker 1.
C21_Witness ==
    /\ pmain = "returned"
    /\ Len(collected) = numJobs
    /\ collected[1] = Sprintf(2, 1)
    /\ \E k \in 1..numJobs : collected[k] = Sprintf(1, 3)

\* the goroutines between mu.Lock() and mu.Unlock()
InCritical == {g \in Goroutines : gor[g].pc \in {"load", "store", "unlock"}}

\* C22: at most one goroutine is between Lock and Unlock, and from the
\* return of wg.Wait() on the counter is the number of goroutines started,
\* which is also what is printed.
C22_MutexExcludesCounterIsCount ==
    /\ Cardinality(InCritical) <= 1
    /\ mmain \in {"print", "returned"} =>
          /\ started = NumGoroutines
          /\ counter = started
    /\ mmain = "returned" => printed = NumGoroutines

\* C22 witness: every goroutine has returned, wg.Wait() has returned, and
\* the counter read is the number of goroutines.
C22_Witness ==
    /\ mmain = "returned"
    /\ \A g \in Goroutines : gor[g].pc = "returned"
    /\ counter = NumGoroutines
    /\ printed = NumGoroutines

\* the ids of the tasks made since createUserWithTask was called
NewTasks == DOMAIN tasks \ DOMAIN before.tasks

\* C23: when createUserWithTask has returned an error, of the begin, of
\* either insert or of the commit, the tables are as they were when it was
\* called; when it has returned nil, there is one more user, with the email
\* given, and one more task, with the title as stored and the new user's id
\* as its user_id, and nothing else has changed. While it runs, nothing it
\* wrote is in the tables before the commit.
C23_CreateUserWithTaskIsAtomic ==
    /\ tpc \in {"begin", "insert_user", "insert_task", "commit"} => Tables = before
    /\ (tpc \in {"deferred", "returned"} /\ ret # "nil") => Tables = before
    /\ (tpc \in {"deferred", "returned"} /\ ret = "nil") =>
          /\ userID \notin before.users
          /\ users = before.users \cup {userID}
          /\ emails[userID] = targs.email
          /\ \A i \in before.users : emails[i] = before.emails[i]
          /\ Cardinality(NewTasks) = 1
          /\ \A t \in NewTasks :
                /\ tasks[t].user_id = userID
                /\ tasks[t].title = VarcharStore(targs.taskTitle)
          /\ \A t \in DOMAIN before.tasks :
                t \in DOMAIN tasks /\ tasks[t] = before.tasks[t]
    /\ tpc = "returned" => ~tx.open /\ tx.users = {} /\ tx.tasks = {}

\* C23 witness: the user was inserted in the transaction with id 4, the
\* insert of the task was refused for its title, and the function has
\* returned that error; there is no user 4.
C23_Witness ==
    /\ tpc = "returned"
    /\ ret = "insert task"
    /\ targs.taskTitle = TitleLong
    /\ userID = 4
    /\ users_id_seq = 4
    /\ 4 \notin users
    /\ Tables = before

====
